---- MODULE Spec2Model ----
(***************************************************************************)
(* Model of src/eva_data_analysis.py: the EVA (spacewalk) data pipeline.   *)
(*                                                                         *)
(* Representation.                                                         *)
(*   - A Python str is a sequence of one-character strings.                *)
(*   - An optional value (None / NaN / NaT, or a value) is a sequence of   *)
(*     length 0 or 1: None == <<>>, Some(v) == <<v>>.                      *)
(*   - A float number of hours h is represented by the integer 60 * h      *)
(*     (sixtieths of an hour), so int(hours) + int(minutes)/60 is          *)
(*     60 * hours + minutes.                                               *)
(*   - A dataframe is a sequence of rows; a row is a function from column  *)
(*     names to values.  A JSON object is a function from its keys.        *)
(*   - The outcome of a call is [raised |-> exception name or "",          *)
(*     value |-> optional return value].                                   *)
(***************************************************************************)
EXTENDS Integers, Sequences, FiniteSets, TLC

VARIABLES
    pc,                         \* position of the running program
    input_file,                 \* the JSON array main reads (sequence of objects)
    eva_data,                   \* main's eva_data dataframe (optional)
    output_file,                \* rows written to the cleaned CSV (optional)
    duration_by_astronaut_df,   \* main's summary dataframe (optional)
    summary_file,               \* rows written to the summary CSV (optional)
    graph_file,                 \* the (date, cumulative_time) series plotted (optional)
    raised,                     \* the exception that ended the run, or ""
    arg,                        \* argument of a directly called function
    ret                         \* outcomes of the directly called functions

vars == <<pc, input_file, eva_data, output_file, duration_by_astronaut_df,
          summary_file, graph_file, raised, arg, ret>>

\* ---------------------------------------------------------------- bounds
MaxDurationLen == 4     \* longest duration text handed to text_to_duration alone
MaxCrewLen == 5         \* longest crew text handed to the crew functions alone
MaxRecords == 2         \* most objects in the JSON array

\* ------------------------------------------------------- Python built-ins
None == <<>>
Some(v) == <<v>>

Return(v) == [raised |-> "", value |-> Some(v)]
Raise(e) == [raised |-> e, value |-> None]

Whitespace == {" ", "\t", "\n", "\r"}
Digits == {"0", "1", "2", "3", "4", "5", "6", "7", "8", "9"}

DigitValue(c) ==
    CASE c = "0" -> 0 [] c = "1" -> 1 [] c = "2" -> 2 [] c = "3" -> 3
      [] c = "4" -> 4 [] c = "5" -> 5 [] c = "6" -> 6 [] c = "7" -> 7
      [] c = "8" -> 8 [] c = "9" -> 9

\* ord(c) for the characters the model uses
Ord(c) ==
    CASE c = "\t" -> 9 [] c = "\n" -> 10 [] c = "\r" -> 13 [] c = " " -> 32
      [] c = "+" -> 43 [] c = "-" -> 45 [] c \in Digits -> 48 + DigitValue(c)
      [] c = ":" -> 58 [] c = ";" -> 59
      [] c = "A" -> 65 [] c = "B" -> 66 [] c = "b" -> 98

\* s < t for Python strings (lexicographic by code point)
RECURSIVE StrLess(_, _)
StrLess(s, t) ==
    IF t = <<>> THEN FALSE
    ELSE IF s = <<>> THEN TRUE
    ELSE IF Head(s) # Head(t) THEN Ord(Head(s)) < Ord(Head(t))
    ELSE StrLess(Tail(s), Tail(t))

\* str.split(sep) with a one-character separator
RECURSIVE str_split(_, _)
str_split(s, sep) ==
    LET at == {i \in 1..Len(s) : s[i] = sep} IN
    IF at = {} THEN <<s>>
    ELSE LET k == CHOOSE i \in at : \A j \in at : i <= j IN
         <<SubSeq(s, 1, k - 1)>> \o str_split(SubSeq(s, k + 1, Len(s)), sep)

\* re.split(pattern, s) for a pattern that is one literal character
re_split(pattern, s) == str_split(s, pattern)

\* str.split() without arguments: the whitespace-separated words
RECURSIVE str_split_whitespace(_)
str_split_whitespace(s) ==
    IF s = <<>> THEN <<>>
    ELSE IF Head(s) \in Whitespace THEN str_split_whitespace(Tail(s))
    ELSE LET stop == {i \in 1..Len(s) : s[i] \in Whitespace}
             k == IF stop = {} THEN Len(s) + 1
                  ELSE CHOOSE i \in stop : \A j \in stop : i <= j IN
         <<SubSeq(s, 1, k - 1)>> \o str_split_whitespace(SubSeq(s, k, Len(s)))

\* str.strip()
str_strip(s) ==
    LET keep == {i \in 1..Len(s) : s[i] \notin Whitespace} IN
    IF keep = {} THEN <<>>
    ELSE SubSeq(s, CHOOSE i \in keep : \A j \in keep : i <= j,
                   CHOOSE i \in keep : \A j \in keep : i >= j)

\* value of a non-empty run of decimal digits, left to right
RECURSIVE digits_value(_, _)
digits_value(acc, s) ==
    IF s = <<>> THEN acc
    ELSE digits_value(10 * acc + DigitValue(Head(s)), Tail(s))

\* int(s) for a str: surrounding whitespace ignored, optional sign, digits
\* (the model's alphabet has no '_')
py_int(s) ==
    LET t == str_strip(s)
        negative == t # <<>> /\ Head(t) = "-"
        body == IF t # <<>> /\ Head(t) \in {"+", "-"} THEN Tail(t) ELSE t IN
    IF body = <<>> \/ \E i \in 1..Len(body) : body[i] \notin Digits
    THEN Raise("ValueError")
    ELSE Return(IF negative THEN 0 - digits_value(0, body)
                ELSE digits_value(0, body))

\* --------------------------------------------------- the program's functions
\* the division by 60 forgotten: int(hours) + int(minutes)
text_to_duration_no_division(duration) ==
    LET parts == str_split(duration, ":") IN
    IF Len(parts) # 2 THEN Raise("ValueError")
    ELSE LET hours == py_int(parts[1])
             minutes == py_int(parts[2]) IN
         IF hours.raised # "" THEN Raise(hours.raised)
         ELSE IF minutes.raised # "" THEN Raise(minutes.raised)
         ELSE Return(60 * hours.value[1] + 60 * minutes.value[1])

\* the minutes subtracted: int(hours) - int(minutes)/60
text_to_duration_minus(duration) ==
    LET parts == str_split(duration, ":") IN
    IF Len(parts) # 2 THEN Raise("ValueError")
    ELSE LET hours == py_int(parts[1])
             minutes == py_int(parts[2]) IN
         IF hours.raised # "" THEN Raise(hours.raised)
         ELSE IF minutes.raised # "" THEN Raise(minutes.raised)
         ELSE Return(60 * hours.value[1] - minutes.value[1])

text_to_duration(duration) ==
    LET parts == str_split(duration, ":") IN
    IF Len(parts) # 2 THEN Raise("ValueError")
    ELSE LET hours == py_int(parts[1])
             minutes == py_int(parts[2]) IN
         IF hours.raised # "" THEN Raise(hours.raised)
         ELSE IF minutes.raised # "" THEN Raise(minutes.raised)
         ELSE Return(60 * hours.value[1] + minutes.value[1])

\* only the empty text taken for a missing crew: if crew == ""
calculate_crew_size_empty_only(crew) ==
    IF crew = <<>> THEN None
    ELSE Some(Len(re_split(";", crew)) - 1)

\* the segments counted instead of the separators: the "- 1" forgotten
calculate_crew_size_segments(crew) ==
    IF str_split_whitespace(crew) = <<>> THEN None
    ELSE Some(Len(re_split(";", crew)))

calculate_crew_size(crew) ==
    IF str_split_whitespace(crew) = <<>> THEN None
    ELSE Some(Len(re_split(";", crew)) - 1)

\* the blank pieces kept: .str.split(';') alone
split_crew_unfiltered(crew) == str_split(crew, ";")

\* the crew decomposition of summary_duration_by_astronaut:
\* .str.split(';') followed by the lambda [i for i in x if i.strip()]
split_crew(crew) ==
    SelectSeq(str_split(crew, ";"), LAMBDA i : str_strip(i) # <<>>)


\* --------------------------------------------------------------- pandas
\* F applied to the value of e: a local name bound to a computed value
Let(e, F(_)) == CHOOSE r \in {F(x) : x \in {e}} : TRUE

\* A dataframe: its column names, its index labels and its rows, in order.
DataFrame(columns, index, rows) ==
    [columns |-> columns, index |-> index, rows |-> rows]

\* the outcome of a call that was handed dataframe df: the exception or the
\* returned value, and the state of the caller's df object after the call
Called(raised_, value, df) == [raised |-> raised_, value |-> value, df |-> df]

Positions(df) == [i \in 1..Len(df.rows) |-> i]

\* the rows at the given positions, each with its index label
take(df, positions) ==
    DataFrame(df.columns,
              [k \in 1..Len(positions) |-> df.index[positions[k]]],
              [k \in 1..Len(positions) |-> df.rows[positions[k]]])

\* pd.read_json(input_file, convert_dates=['date']): one row per object, one
\* column per key occurring in some object, NaN/NaT where an object lacks the
\* key or holds null, RangeIndex 0..n-1
pd_read_json(records) ==
    Let(UNION {DOMAIN records[i] : i \in 1..Len(records)}, LAMBDA columns :
        DataFrame(columns,
                  [i \in 1..Len(records) |-> i - 1],
                  [i \in 1..Len(records) |->
                      [c \in columns |-> IF c \in DOMAIN records[i]
                                         THEN records[i][c] ELSE None]]))

\* float(x) of a JSON scalar: NaN stays NaN, a text converts when it is a decimal
\* integer literal (the model's alphabet has no '.', 'e', 'inf' or 'nan')
py_float(x) ==
    IF x = None THEN Return(None)
    ELSE Let(py_int(x[1]), LAMBDA v :
             IF v.raised # "" THEN v ELSE Return(v.value))

\* df.dropna(axis=0, subset=subset): KeyError for a column that is not there
dropna(df, subset) ==
    IF ~(subset \subseteq df.columns) THEN Raise("KeyError")
    ELSE Return(take(df, SelectSeq(Positions(df),
                    LAMBDA i : \A c \in subset : df.rows[i][c] # None)))

\* df[column] = values
set_column(df, column, values) ==
    DataFrame(df.columns \cup {column}, df.index,
              [i \in 1..Len(df.rows) |-> (column :> values[i]) @@ df.rows[i]])

\* df.loc[:, columns] and df.drop(...): the frame with only these columns
only_columns(df, columns) ==
    DataFrame(columns, df.index,
              [i \in 1..Len(df.rows) |-> [c \in columns |-> df.rows[i][c]]])

\* the first exception raised while a function is applied down a column
FirstRaised(outcomes) ==
    Let({i \in 1..Len(outcomes) : outcomes[i].raised # ""}, LAMBDA bad :
        IF bad = {} THEN ""
        ELSE outcomes[CHOOSE i \in bad : \A j \in bad : i <= j].raised)

\* the sum of the non-null values at positions 1..k
RECURSIVE sum_values(_, _)
sum_values(values, k) ==
    IF k = 0 THEN 0
    ELSE sum_values(values, k - 1)
         + (IF values[k] = None THEN 0 ELSE values[k][1])

\* ascending order of a set of strings
RECURSIVE sorted_keys(_)
sorted_keys(S) ==
    IF S = {} THEN <<>>
    ELSE Let(CHOOSE x \in S : \A y \in S \ {x} : StrLess(x, y), LAMBDA m :
             Let(S \ {m}, LAMBDA rest : <<m>> \o sorted_keys(rest)))

\* df.explode(column): one row per list element, an empty list gives one row
\* with NaN; every produced row keeps the index label of its source row
RECURSIVE explode_from(_, _, _)
explode_from(df, column, i) ==
    IF i > Len(df.rows) THEN <<>>
    ELSE (IF df.rows[i][column] = <<>> THEN << <<i, None>> >>
          ELSE [k \in 1..Len(df.rows[i][column]) |->
                   <<i, Some(df.rows[i][column][k])>>])
         \o explode_from(df, column, i + 1)

\* the rows with an empty list dropped instead of kept with NaN
explode_dropping_empty(df, column) ==
    Let(SelectSeq(explode_from(df, column, 1), LAMBDA cell : cell[2] # None),
        LAMBDA cells :
        DataFrame(df.columns,
                  [k \in 1..Len(cells) |-> df.index[cells[k][1]]],
                  [k \in 1..Len(cells) |->
                      [df.rows[cells[k][1]] EXCEPT ![column] = cells[k][2]]]))

explode(df, column) ==
    Let(explode_from(df, column, 1), LAMBDA cells :
        DataFrame(df.columns,
                  [k \in 1..Len(cells) |-> df.index[cells[k][1]]],
                  [k \in 1..Len(cells) |->
                      [df.rows[cells[k][1]] EXCEPT ![column] = cells[k][2]]]))

\* the values of one column in the rows whose key column holds name
column_where(df, key, name, column) ==
    Let(SelectSeq(Positions(df), LAMBDA i : df.rows[i][key] = Some(name)),
        LAMBDA members : [m \in 1..Len(members) |-> df.rows[members[m]][column]])

\* the keys of a column in order of first appearance
RECURSIVE first_appearances(_, _, _)
first_appearances(df, key, i) ==
    IF i = 0 THEN <<>>
    ELSE Let(first_appearances(df, key, i - 1), LAMBDA seen :
             IF df.rows[i][key] = None
                \/ \E k \in 1..Len(seen) : seen[k] = df.rows[i][key][1]
             THEN seen ELSE Append(seen, df.rows[i][key][1]))

\* the groups left in order of first appearance: groupby(key, sort=False)
groupby_sum_unsorted(df, key) ==
    Let(first_appearances(df, key, Len(df.rows)), LAMBDA order :
        DataFrame(df.columns \ {key}, order,
            [k \in 1..Len(order) |->
                [c \in df.columns \ {key} |->
                    Let(column_where(df, key, order[k], c), LAMBDA values :
                        Some(sum_values(values, Len(values))))]]))

\* df.groupby(key).sum(): one row per distinct non-null key, keys ascending
\* (sort=True) and moved to the index, every other column summed
groupby_sum(df, key) ==
    Let(sorted_keys({df.rows[i][key][1] :
            i \in {j \in 1..Len(df.rows) : df.rows[j][key] # None}}),
        LAMBDA order :
            DataFrame(df.columns \ {key}, order,
                [k \in 1..Len(order) |->
                    [c \in df.columns \ {key} |->
                        Let(column_where(df, key, order[k], c), LAMBDA values :
                            Some(sum_values(values, Len(values))))]]))

\* df.sort_values(by): every ordering of the rows that is ascending in the
\* column.  The default kind='quicksort' is not a stable sort, so rows with
\* equal keys may come out in any relative order.
sort_values(df, by) ==
    {take(df, p) : p \in {q \in [1..Len(df.rows) -> 1..Len(df.rows)] :
        /\ \A a, b \in 1..Len(df.rows) : a # b => q[a] # q[b]
        /\ \A a \in 1..Len(df.rows) - 1 :
              df.rows[q[a]][by][1] <= df.rows[q[a + 1]][by][1]}}

\* Series.cumsum()
cumsum(values) == [k \in 1..Len(values) |-> Some(sum_values(values, k))]

\* df.to_csv(output_file, index=False): the columns' values, without the index
to_csv(df) == [columns |-> df.columns, rows |-> df.rows]

\* ------------------------------------------------- the program's functions
read_json_to_dataframe(file) ==
    Let(pd_read_json(file), LAMBDA eva_df :
        IF "eva" \notin eva_df.columns THEN Raise("KeyError")
        ELSE Let([i \in 1..Len(eva_df.rows) |-> py_float(eva_df.rows[i]["eva"])],
                 LAMBDA floats :
            IF FirstRaised(floats) # "" THEN Raise(FirstRaised(floats))
            ELSE Let(set_column(eva_df, "eva",
                         [i \in 1..Len(floats) |-> floats[i].value[1]]),
                     LAMBDA converted : dropna(converted, {"duration", "date"}))))

\* the column added to df itself: the df.copy() forgotten
add_duration_hours_in_place(df) ==
    IF "duration" \notin df.columns THEN Called("KeyError", None, df)
    ELSE Let([i \in 1..Len(df.rows) |->
                 IF df.rows[i]["duration"] = None THEN Raise("AttributeError")
                 ELSE text_to_duration(df.rows[i]["duration"][1])],
             LAMBDA hours :
        IF FirstRaised(hours) # "" THEN Called(FirstRaised(hours), None, df)
        ELSE Let(set_column(df, "duration_hours",
                     [i \in 1..Len(hours) |-> hours[i].value]),
                 LAMBDA changed : Called("", Some(changed), changed)))

add_duration_hours(df) ==
    IF "duration" \notin df.columns THEN Called("KeyError", None, df)
    ELSE Let([i \in 1..Len(df.rows) |->
                 IF df.rows[i]["duration"] = None THEN Raise("AttributeError")
                 ELSE text_to_duration(df.rows[i]["duration"][1])],
             LAMBDA hours :
        IF FirstRaised(hours) # "" THEN Called(FirstRaised(hours), None, df)
        ELSE Called("", Some(set_column(df, "duration_hours",
                        [i \in 1..Len(hours) |-> hours[i].value])), df))

add_crew_size_column(df) ==
    IF "crew" \notin df.columns THEN Called("KeyError", None, df)
    ELSE Let([i \in 1..Len(df.rows) |->
                 IF df.rows[i]["crew"] = None THEN Raise("AttributeError")
                 ELSE Return(calculate_crew_size(df.rows[i]["crew"][1]))],
             LAMBDA sizes :
        IF FirstRaised(sizes) # "" THEN Called(FirstRaised(sizes), None, df)
        ELSE Called("", Some(set_column(df, "crew_size",
                        [i \in 1..Len(sizes) |-> sizes[i].value[1]])), df))

summary_duration_by_astronaut(df) ==
    IF ~({"crew", "duration"} \subseteq df.columns) THEN Called("KeyError", None, df)
    ELSE IF \E i \in 1..Len(df.rows) : df.rows[i]["crew"] = None
    THEN Called("TypeError", None, df)
    ELSE
    Let(only_columns(df, {"crew", "duration"}), LAMBDA subset :
    Let(set_column(subset, "crew",
            [i \in 1..Len(subset.rows) |-> split_crew(subset.rows[i]["crew"][1])]),
        LAMBDA listed :
    Let(explode(listed, "crew"), LAMBDA exploded :
    Let(add_duration_hours(exploded), LAMBDA with_hours :
        IF with_hours.raised # "" THEN Called(with_hours.raised, None, df)
        ELSE Let(only_columns(with_hours.value[1], {"crew", "duration_hours"}),
                 LAMBDA dropped : Called("", Some(groupby_sum(dropped, "crew")), df))))))

\* returns None; "value" holds what plt.plot was given, the (date,
\* cumulative_time) pairs
plot_cumulative_time_in_space(df) ==
    Let(add_duration_hours(df), LAMBDA with_hours :
        IF with_hours.raised # "" THEN Called(with_hours.raised, None, with_hours.df)
        ELSE Let(with_hours.value[1].rows, LAMBDA rows :
             Let(cumsum([i \in 1..Len(rows) |-> rows[i]["duration_hours"]]),
                 LAMBDA cumulative_time :
                 Called("", Some([i \in 1..Len(rows) |->
                            <<rows[i]["date"][1], cumulative_time[i][1]>>]),
                        with_hours.df))))

\* ----------------------------------------------------------------- inputs
Str(chars, n) == UNION {[1..k -> chars] : k \in 0..n}

DurationChars == {"0", "3", ":", "-", "+", " ", "b"}
CrewChars == {"A", "B", ";", " "}

\* JSON arrays read by a whole run: every object has a numeric eva, a date and
\* a crew text; its duration is present or the key is missing
EvaDates == {1, 2}
EvaDurations == {<<"0", ":", "3", "0">>, <<"-", "1", ":", "0", "0">>, <<"b">>}
EvaCrews == {<<>>, <<"A", ";", "B", ";">>, <<"B", ";", " ", "A">>}
EvaObjects ==
    {[eva |-> Some(<<"1">>), date |-> Some(d), duration |-> Some(t), crew |-> Some(c)] :
        d \in EvaDates, t \in EvaDurations, c \in EvaCrews}
    \cup {[eva |-> Some(<<"1">>), date |-> Some(d), crew |-> Some(c)] :
        d \in EvaDates, c \in EvaCrews}
EvaFiles == UNION {[1..n -> EvaObjects] : n \in 0..MaxRecords}

\* JSON arrays handed to the loader alone: eva is a number, a text or null; date
\* and duration are each a value, null, or a missing key
Optional(S) == {None} \cup {Some(v) : v \in S}
Objects(keys, E, D, T) ==
    {[k \in keys |-> CASE k = "eva" -> f[1] [] k = "date" -> f[2]
                       [] k = "duration" -> f[3] [] k = "crew" -> Some(<<"A", ";">>)] :
        f \in E \X D \X T}
RawObjects ==
    LET E == Optional({<<"3">>, <<"b">>})
        D == Optional({1, 2})
        T == Optional({<<"0", ":", "3", "0">>, <<>>}) IN
    UNION {Objects(keys \cup {"eva", "crew"}, E, D, T) :
              keys \in SUBSET {"date", "duration"}}
RawFiles == UNION {[1..n -> RawObjects] : n \in 0..MaxRecords}

\* ---------------------------------------------------------------- actions
NoCall == [fn |-> "", raised |-> "", value |-> None]

NothingRun ==
    /\ eva_data = None
    /\ output_file = None
    /\ duration_by_astronaut_df = None
    /\ summary_file = None
    /\ graph_file = None
    /\ raised = ""
    /\ ret = NoCall

\* main(), lines 10-24, one action per statement
MainReadJson ==
    /\ pc = "main_10"
    /\ \E out \in {read_json_to_dataframe(input_file)} :
       IF out.raised # ""
       THEN /\ pc' = "aborted"
            /\ raised' = out.raised
            /\ UNCHANGED eva_data
       ELSE /\ pc' = "main_13"
            /\ eva_data' = out.value
            /\ UNCHANGED raised
    /\ UNCHANGED <<input_file, output_file, duration_by_astronaut_df,
                   summary_file, graph_file, arg, ret>>

MainWriteCsv ==
    /\ pc = "main_13"
    /\ output_file' = Some(to_csv(eva_data[1]))
    /\ pc' = "main_16"
    /\ UNCHANGED <<input_file, eva_data, duration_by_astronaut_df,
                   summary_file, graph_file, raised, arg, ret>>

MainSummary ==
    /\ pc = "main_16"
    /\ \E out \in {summary_duration_by_astronaut(eva_data[1])} :
       /\ eva_data' = Some(out.df)
       /\ IF out.raised # ""
          THEN /\ pc' = "aborted"
               /\ raised' = out.raised
               /\ UNCHANGED duration_by_astronaut_df
          ELSE /\ pc' = "main_18"
               /\ duration_by_astronaut_df' = out.value
               /\ UNCHANGED raised
    /\ UNCHANGED <<input_file, output_file, summary_file, graph_file, arg, ret>>

MainWriteSummary ==
    /\ pc = "main_18"
    /\ summary_file' = Some(to_csv(duration_by_astronaut_df[1]))
    /\ pc' = "main_21"
    /\ UNCHANGED <<input_file, eva_data, output_file, duration_by_astronaut_df,
                   graph_file, raised, arg, ret>>

MainSortValues ==
    /\ pc = "main_21"
    /\ \E sorted \in sort_values(eva_data[1], "date") : eva_data' = Some(sorted)
    /\ pc' = "main_24"
    /\ UNCHANGED <<input_file, output_file, duration_by_astronaut_df,
                   summary_file, graph_file, raised, arg, ret>>

MainPlot ==
    /\ pc = "main_24"
    /\ \E out \in {plot_cumulative_time_in_space(eva_data[1])} :
       /\ eva_data' = Some(out.df)
       /\ IF out.raised # ""
          THEN /\ pc' = "aborted"
               /\ raised' = out.raised
               /\ UNCHANGED graph_file
          ELSE /\ pc' = "done"
               /\ graph_file' = out.value
               /\ UNCHANGED raised
    /\ UNCHANGED <<input_file, output_file, duration_by_astronaut_df,
                   summary_file, arg, ret>>

\* the functions called directly (as a test or another module calls them)
CallReadJsonToDataframe ==
    /\ pc = "call_read_json"
    /\ \E out \in {read_json_to_dataframe(input_file)} :
       /\ ret' = [fn |-> "read_json_to_dataframe", raised |-> out.raised,
                  value |-> out.value]
       /\ eva_data' = out.value
    /\ pc' = "loaded"
    /\ UNCHANGED <<input_file, output_file, duration_by_astronaut_df,
                   summary_file, graph_file, raised, arg>>

CallStage(fn, outcome) ==
    /\ pc = "loaded"
    /\ \E out \in {outcome} :
       /\ ret' = [fn |-> fn, raised |-> out.raised, value |-> out.value]
       /\ eva_data' = Some(out.df)
    /\ UNCHANGED <<pc, input_file, output_file, duration_by_astronaut_df,
                   summary_file, graph_file, raised, arg>>

CallAddDurationHours ==
    /\ eva_data # None
    /\ CallStage("add_duration_hours", add_duration_hours(eva_data[1]))

CallAddCrewSizeColumn ==
    /\ eva_data # None
    /\ CallStage("add_crew_size_column", add_crew_size_column(eva_data[1]))

CallSummaryDurationByAstronaut ==
    /\ eva_data # None
    /\ CallStage("summary_duration_by_astronaut",
                 summary_duration_by_astronaut(eva_data[1]))

CallPlotCumulativeTimeInSpace ==
    /\ eva_data # None
    /\ CallStage("plot_cumulative_time_in_space",
                 plot_cumulative_time_in_space(eva_data[1]))

CallText(fn, outcome) ==
    /\ pc = "call_text"
    /\ \E out \in {outcome} :
       ret' = [fn |-> fn, raised |-> out.raised, value |-> out.value]
    /\ pc' = "returned"
    /\ UNCHANGED <<input_file, eva_data, output_file, duration_by_astronaut_df,
                   summary_file, graph_file, raised, arg>>

CallTextToDuration == CallText("text_to_duration", text_to_duration(arg))

CallCalculateCrewSize ==
    CallText("calculate_crew_size", Return(calculate_crew_size(arg)))

CallSplitCrew == CallText("split_crew", Return(split_crew(arg)))

\* ---------------------------------------------------------- specifications
\* a whole run of main, or the loader followed by direct calls of the stages
Init ==
    /\ pc \in {"main_10", "call_read_json"}
    /\ input_file \in EvaFiles
    /\ arg = <<>>
    /\ NothingRun

Next ==
    \/ MainReadJson
    \/ MainWriteCsv
    \/ MainSummary
    \/ MainWriteSummary
    \/ MainSortValues
    \/ MainPlot
    \/ CallReadJsonToDataframe
    \/ CallAddDurationHours
    \/ CallAddCrewSizeColumn
    \/ CallSummaryDurationByAstronaut
    \/ CallPlotCumulativeTimeInSpace

Spec == Init /\ [][Next]_vars

\* the loader alone, over arrays with null values and missing keys
InitLoader ==
    /\ pc = "call_read_json"
    /\ input_file \in RawFiles
    /\ arg = <<>>
    /\ NothingRun

NextLoader == CallReadJsonToDataframe

SpecLoader == InitLoader /\ [][NextLoader]_vars

\* text_to_duration alone, over every short text
InitDuration ==
    /\ pc = "call_text"
    /\ input_file = <<>>
    /\ arg \in Str(DurationChars, MaxDurationLen)
    /\ NothingRun

NextDuration == CallTextToDuration

SpecDuration == InitDuration /\ [][NextDuration]_vars

\* the crew functions alone, over every short text
InitCrew ==
    /\ pc = "call_text"
    /\ input_file = <<>>
    /\ arg \in Str(CrewChars, MaxCrewLen)
    /\ NothingRun

NextCrew == CallCalculateCrewSize \/ CallSplitCrew

SpecCrew == InitCrew /\ [][NextCrew]_vars


\* ------------------------------------------------ what the claims speak of
Blank(s) == \A i \in 1..Len(s) : s[i] \in Whitespace

\* the k-th smallest element of a set of numbers
Nth(S, k) == CHOOSE p \in S : Cardinality({q \in S : q < p}) = k - 1

\* the pieces of s between the occurrences of the separator c
Pieces(s, c) ==
    LET cuts == {i \in 1..Len(s) : s[i] = c} \cup {0, Len(s) + 1} IN
    [k \in 1..Cardinality(cuts) - 1 |->
        SubSeq(s, Nth(cuts, k) + 1, Nth(cuts, k + 1) - 1)]

RECURSIVE TrimLeft(_)
TrimLeft(s) ==
    IF s # <<>> /\ Head(s) \in Whitespace THEN TrimLeft(Tail(s)) ELSE s

RECURSIVE TrimRight(_)
TrimRight(s) ==
    IF s # <<>> /\ s[Len(s)] \in Whitespace
    THEN TrimRight(SubSeq(s, 1, Len(s) - 1)) ELSE s

Trimmed(s) == TrimRight(TrimLeft(s))

\* s is whitespace, an optional sign, one or more digits, whitespace
IsIntegerText(s) ==
    \E i \in 1..Len(s), j \in 1..Len(s) :
        /\ i <= j
        /\ \A k \in 1..i - 1 : s[k] \in Whitespace
        /\ \A k \in j + 1..Len(s) : s[k] \in Whitespace
        /\ \A k \in i + 1..j : s[k] \in Digits
        /\ s[i] \in Digits \/ (s[i] \in {"+", "-"} /\ i < j)

RECURSIVE Pow10(_)
Pow10(n) == IF n = 0 THEN 1 ELSE 10 * Pow10(n - 1)

\* the place values of the digits of s at positions 1..k, units at position last
RECURSIVE PlaceValues(_, _, _)
PlaceValues(s, last, k) ==
    IF k = 0 THEN 0
    ELSE (IF s[k] \in Digits THEN DigitValue(s[k]) * Pow10(last - k) ELSE 0)
         + PlaceValues(s, last, k - 1)

\* the number an integer text denotes
IntegerOf(s) ==
    LET at == {k \in 1..Len(s) : s[k] \in Digits}
        last == CHOOSE k \in at : \A m \in at : m <= k
        magnitude == PlaceValues(s, last, Len(s)) IN
    IF \E k \in 1..Len(s) : s[k] = "-" THEN 0 - magnitude ELSE magnitude

\* a text with exactly one ':' and an integer on each side, and its length in
\* sixtieths of an hour
IsDurationText(s) ==
    /\ Cardinality({i \in 1..Len(s) : s[i] = ":"}) = 1
    /\ IsIntegerText(Pieces(s, ":")[1])
    /\ IsIntegerText(Pieces(s, ":")[2])

DurationOf(s) == 60 * IntegerOf(Pieces(s, ":")[1]) + IntegerOf(Pieces(s, ":")[2])

\* C2: text_to_duration succeeds exactly on the texts with exactly one ':' and an
\* integer on each side, returning hours + minutes/60; on every other text it
\* raises ValueError and returns nothing.
C2_TextToDuration ==
    ret.fn = "text_to_duration" =>
        IF IsDurationText(arg)
        THEN ret.raised = "" /\ ret.value = Some(DurationOf(arg))
        ELSE ret.raised = "ValueError" /\ ret.value = None

\* "-3:3" has parsed as -3 hours and 3 minutes
C2_Witness ==
    /\ ret.fn = "text_to_duration"
    /\ arg = <<"-", "3", ":", "3">>
    /\ ret.value = Some(-177)

\* C7: calculate_crew_size returns None exactly for the empty and the
\* whitespace-only texts, and the number of ';' in the text for every other.
C7_CalculateCrewSize ==
    ret.fn = "calculate_crew_size" =>
        /\ ret.raised = ""
        /\ ret.value = Some(IF Blank(arg) THEN None
                            ELSE Some(Cardinality({i \in 1..Len(arg) : arg[i] = ";"})))

\* a whitespace-only crew has given None, not 0
C7_Witness ==
    /\ ret.fn = "calculate_crew_size"
    /\ arg = <<" ", " ">>
    /\ ret.value = Some(None)

\* C3 as claimed: the crew decomposition returns the ';'-separated pieces, each
\* trimmed of surrounding whitespace, without the pieces that are then empty.
C3_Claim ==
    ret.fn = "split_crew" =>
        ret.value = Some(SelectSeq([k \in 1..Len(Pieces(arg, ";")) |->
                                       Trimmed(Pieces(arg, ";")[k])],
                                   LAMBDA piece : piece # <<>>))

\* C3 as amended: the crew decomposition returns the ';'-separated pieces that
\* are not empty or whitespace-only, in order, each exactly as it stands in the
\* text (its surrounding whitespace kept).
C3_SplitCrewKeepsWhitespace ==
    ret.fn = "split_crew" =>
        /\ ret.raised = ""
        /\ ret.value = Some(SelectSeq(Pieces(arg, ";"), LAMBDA piece : ~Blank(piece)))

\* " A; B" has been decomposed into " A" and " B"
C3_Witness ==
    /\ ret.fn = "split_crew"
    /\ arg = <<" ", "A", ";", " ", "B">>
    /\ ret.value = Some(<< <<" ", "A">>, <<" ", "B">> >>)

\* C10 as claimed: for a crew text that is not blank and has no trailing ';'
\* (nothing but whitespace after its last ';' counts as trailing too),
\* calculate_crew_size is the length of the decomposed crew list minus one.
C10_Claim ==
    (/\ ret.fn = "calculate_crew_size"
     /\ ~Blank(arg)
     /\ ~Blank(Pieces(arg, ";")[Len(Pieces(arg, ";"))]))
    => ret.value = Some(Some(Len(split_crew(arg)) - 1))

\* C10 as amended: for a crew text in which no ';'-separated piece is empty or
\* whitespace-only (so it is not blank and has no trailing, leading or doubled
\* separator), calculate_crew_size is the length of the decomposed list minus one.
C10_UndercountsByOne ==
    (/\ ret.fn = "calculate_crew_size"
     /\ \A k \in 1..Len(Pieces(arg, ";")) : ~Blank(Pieces(arg, ";")[k]))
    => ret.value = Some(Some(Len(split_crew(arg)) - 1))

\* "A;B; A" without the blank: three names, size 2
C10_Witness ==
    /\ ret.fn = "calculate_crew_size"
    /\ arg = <<"A", ";", "B", ";", "A">>
    /\ Len(split_crew(arg)) = 3
    /\ ret.value = Some(Some(2))


\* ------------------------------------------------- the claims about frames
Loaded == eva_data # None
Data == eva_data[1]
InMain == pc \in {"main_10", "main_13", "main_16", "main_18", "main_21",
                  "main_24", "done", "aborted"}

DurationsOf(df) == [i \in 1..Len(df.rows) |-> df.rows[i]["duration"][1]]
CrewListsOf(df) == [i \in 1..Len(df.rows) |-> split_crew(df.rows[i]["crew"][1])]

AllDurationsParse(df) ==
    \A i \in 1..Len(df.rows) : IsDurationText(DurationsOf(df)[i])

\* how many times name stands in a list
RECURSIVE Occurrences(_, _)
Occurrences(name, list) ==
    IF list = <<>> THEN 0
    ELSE (IF Head(list) = name THEN 1 ELSE 0) + Occurrences(name, Tail(list))

\* the sum of f[i] * g[i] over i in 1..k
RECURSIVE SumProduct(_, _, _)
SumProduct(f, g, k) ==
    IF k = 0 THEN 0 ELSE f[k] * g[k] + SumProduct(f, g, k - 1)

\* the object at position i of the JSON array has a non-null date and duration
Complete(i) ==
    /\ {"date", "duration"} \subseteq DOMAIN input_file[i]
    /\ input_file[i]["date"] # None
    /\ input_file[i]["duration"] # None

\* C1 as claimed: for every JSON array the loader raises nothing and returns,
\* in input order and without deduplication, exactly the records whose date and
\* duration are both non-null.
C1_Claim ==
    ret.fn = "read_json_to_dataframe" =>
        /\ ret.raised = ""
        /\ LET kept == SelectSeq([i \in 1..Len(input_file) |-> i], Complete)
               df == ret.value[1] IN
           /\ Len(df.rows) = Len(kept)
           /\ \A k \in 1..Len(kept) :
                /\ df.index[k] = kept[k] - 1
                /\ \A c \in {"date", "duration", "crew"} :
                      df.rows[k][c] = input_file[kept[k]][c]

\* what a summary frame must be for the frame it was computed from
SummaryOf(summary, df) ==
    LET lists == CrewListsOf(df)
        hours == [i \in 1..Len(df.rows) |-> DurationOf(DurationsOf(df)[i])]
        names == UNION {{lists[i][k] : k \in 1..Len(lists[i])} : i \in 1..Len(lists)}
        total(k) == summary.rows[k]["duration_hours"][1] IN
    /\ summary.columns = {"duration_hours"}
    /\ Len(summary.index) = Cardinality(names)
    /\ {summary.index[k] : k \in 1..Len(summary.index)} = names
    /\ \A k \in 1..Len(summary.index) - 1 :
          StrLess(summary.index[k], summary.index[k + 1])
    /\ \A k \in 1..Len(summary.index) :
          total(k) = SumProduct([i \in 1..Len(lists) |->
                                    Occurrences(summary.index[k], lists[i])],
                                hours, Len(lists))
    /\ SumProduct([k \in 1..Len(summary.index) |-> total(k)],
                  [k \in 1..Len(summary.index) |-> 1], Len(summary.index))
       = SumProduct([i \in 1..Len(lists) |-> Len(lists[i])], hours, Len(lists))

\* C4: when every duration parses, summary_duration_by_astronaut raises nothing
\* and returns one entry per distinct name of the decomposed crew lists, names
\* ascending, each value the sum of the hours of the exploded rows with that name
\* (records with an empty list add nothing), so the values sum to the hours of all
\* exploded rows.
C4_SummaryByAstronaut ==
    /\ pc = "main_18" => SummaryOf(duration_by_astronaut_df[1], Data)
    /\ (ret.fn = "summary_duration_by_astronaut" /\ ret.raised = "")
          => SummaryOf(ret.value[1], Data)
    /\ (Loaded /\ AllDurationsParse(Data)) =>
          /\ pc # "aborted"
          /\ ret.fn = "summary_duration_by_astronaut" => ret.raised = ""

\* main has summarised "A;B;" and "B; A": three names, B summed over two records
C4_Witness ==
    /\ pc = "main_18"
    /\ duration_by_astronaut_df[1].index = << <<" ", "A">>, <<"A">>, <<"B">> >>
    /\ duration_by_astronaut_df[1].rows[3]["duration_hours"] = Some(-30)

\* the series of the cumulative plot for the frame it was drawn from
SeriesOf(series, df) ==
    LET hours == [i \in 1..Len(df.rows) |-> DurationOf(DurationsOf(df)[i])] IN
    /\ Len(series) = Len(df.rows)
    /\ \A k \in 1..Len(series) :
          /\ series[k][1] = df.rows[k]["date"][1]
          /\ series[k][2] = SumProduct(hours, [i \in 1..Len(hours) |-> 1], k)

NonDecreasing(series) ==
    \A k \in 1..Len(series) - 1 : series[k][2] <= series[k + 1][2]

\* the positions of the rows in ascending order of date, rows of one date in
\* load order (ascending index label)
StableOrder(df) ==
    CHOOSE p \in [1..Len(df.rows) -> 1..Len(df.rows)] :
        \A a, b \in 1..Len(df.rows) : a < b =>
            \/ df.rows[p[a]]["date"][1] < df.rows[p[b]]["date"][1]
            \/ /\ df.rows[p[a]]["date"][1] = df.rows[p[b]]["date"][1]
               /\ df.index[p[a]] < df.index[p[b]]

\* C5 as claimed: the series main plots has one point per loaded record, the
\* records ascending by date with same-date records in load order, the k-th
\* value the sum of the hours of the first k records in that order.
C5_Claim ==
    pc = "done" => SeriesOf(graph_file[1], take(Data, StableOrder(Data)))

\* every cumulative series produced: main's, or a direct call's
PlottedSeries ==
    (IF pc = "done" THEN {graph_file[1]} ELSE {})
    \cup (IF ret.fn = "plot_cumulative_time_in_space" /\ ret.raised = ""
          THEN {ret.value[1]} ELSE {})

\* C6 as claimed: whenever every duration parses, the cumulative values are
\* non-decreasing.
C6_Claim == \A series \in PlottedSeries : NonDecreasing(series)

\* C6 as amended: whenever every duration parses to a value that is not
\* negative, the cumulative values are non-decreasing.
C6_NonDecreasing ==
    \A series \in PlottedSeries :
        (\A i \in 1..Len(Data.rows) : DurationOf(DurationsOf(Data)[i]) >= 0)
        => NonDecreasing(series)

\* main has plotted two records of half an hour: 0.5 then 1.0
C6_Witness ==
    /\ pc = "done"
    /\ Len(graph_file[1]) = 2
    /\ graph_file[1][1][2] = 30
    /\ graph_file[1][2][2] = 60

\* a loaded record whose duration is not a duration text
Malformed(i) == ~IsDurationText(DurationsOf(Data)[i])

\* C8: main ends with every output written or aborts at the first exception; when
\* a loaded record has a malformed duration, whatever its crew,
\* summary_duration_by_astronaut raises ValueError and returns nothing, and main
\* stops there: no summary, no summary file, no sort, no plot.
C8_AbortOnMalformedDuration ==
    /\ pc = "done" =>
          /\ raised = ""
          /\ output_file # None /\ summary_file # None /\ graph_file # None
    /\ pc = "aborted" => raised # "" /\ graph_file = None
    /\ (Loaded /\ \E i \in 1..Len(Data.rows) : Malformed(i)) =>
          /\ InMain =>
                /\ pc \in {"main_13", "main_16", "aborted"}
                /\ pc = "aborted" => raised = "ValueError" /\ output_file # None
                /\ duration_by_astronaut_df = None
                /\ summary_file = None
                /\ graph_file = None
                /\ \A k \in 1..Len(Data.index) - 1 : Data.index[k] < Data.index[k + 1]
          /\ ret.fn = "summary_duration_by_astronaut" =>
                ret.raised = "ValueError" /\ ret.value = None

\* main has aborted on a record with a malformed duration and an empty crew
C8_Witness ==
    /\ pc = "aborted"
    /\ raised = "ValueError"
    /\ Loaded
    /\ \E i \in 1..Len(Data.rows) : Malformed(i)
    /\ \A i \in 1..Len(Data.rows) : Malformed(i) => Data.rows[i]["crew"] = Some(<<>>)
    /\ \E i \in 1..Len(Data.rows) : ~Malformed(i)

\* C9 as claimed: once the loader has returned, no step changes the frame it
\* returned: same records, same fields, same order.  (Stated for frames without
\* two records of one date, where the outcome of main's sort is determined.)
C9_Claim ==
    [][(/\ Loaded
        /\ \A a, b \in 1..Len(eva_data[1].rows) :
              a # b => eva_data[1].rows[a]["date"] # eva_data[1].rows[b]["date"])
       => /\ eva_data'[1].columns = eva_data[1].columns
          /\ eva_data'[1].index = eva_data[1].index
          /\ eva_data'[1].rows = eva_data[1].rows]_vars

\* the same labelled rows and columns, in any order
SameRecords(df, after) ==
    /\ after.columns = df.columns
    /\ Len(after.rows) = Len(df.rows)
    /\ {<<after.index[k], after.rows[k]>> : k \in 1..Len(after.rows)}
       = {<<df.index[k], df.rows[k]>> : k \in 1..Len(df.rows)}

\* C9 as amended: once the loader has returned, no function of the program
\* changes the frame it returned, and every step of main leaves it with the
\* same records and the same fields; its order stays the same too, except that
\* main's sort_values('date', inplace=True) reorders it by date.
C9_OnlyMainSortReorders ==
    [][Loaded => IF pc = "main_21"
                 THEN /\ SameRecords(eva_data[1], eva_data'[1])
                      /\ \A k \in 1..Len(eva_data'[1].rows) - 1 :
                            eva_data'[1].rows[k]["date"][1]
                            <= eva_data'[1].rows[k + 1]["date"][1]
                 ELSE eva_data' = eva_data]_vars

\* main has finished with the loaded frame reordered by its sort
C9_Witness ==
    /\ pc = "done"
    /\ Data.index = <<1, 0>>
    /\ Data.columns = {"eva", "date", "duration", "crew"}

====
